---- MODULE Spec2Model ----
(***************************************************************************)
(* Model of RedTide_Web_App.py: the CSV load (load_all_data), the risk    *)
(* classifier (assess_red_tide_risk) and the script run of main().        *)
(*                                                                         *)
(* Units.  Temperatures and salinities are integers in hundredths of a    *)
(* degree / psu (24.9 is 2490).  A mean is an exact fraction [num, den]   *)
(* with den > 0.  A timestamp is the integer yyyymmddhh, a calendar date  *)
(* the integer yyyymmdd, a month-day the pair <<mm, dd>>.                 *)
(*                                                                         *)
(* The occurrence dataset (redtide_occurrences.csv) is read by no         *)
(* property below and is left out.                                        *)
(*                                                                         *)
(* The functions are modelled as written.  Python compares floats; the    *)
(* model compares exact fractions, so a mean that a float rounds onto or  *)
(* off a cutoff is decided here by its exact value.                       *)
(***************************************************************************)
EXTENDS Integers, Sequences, FiniteSets, TLC

VARIABLES
    files,       \* path -> the tongyeong_lite.csv found there (or none)
    cache,       \* st.cache_data entry of load_all_data
    env_df,      \* the env_df of the current script run
    pc,          \* position of the current script run
    runs,        \* script runs started in this session
    btn,         \* the button that triggered the current run
    input_date,  \* value of the tab-1 date widget in this run
    notice,      \* the blocking "no data" notice is on screen
    queries,     \* query operations executed in this run
    shown,       \* what the query of this run displayed
    bg_cols,     \* columns of bg_sample (tab 4)
    temp,        \* temperature handed to assess_red_tide_risk
    salt,        \* salinity handed to assess_red_tide_risk
    verdict      \* what assess_red_tide_risk returned

vars == <<files, cache, env_df, pc, runs, btn, input_date, notice, queries,
          shown, bg_cols, temp, salt, verdict>>

----------------------------------------------------------------------------
(* Bounds of the model *)

MaxRows == 2        \* rows of the CSV at the first path
MaxRuns == 2        \* script runs of one session
TempGridLo == 280   \* classifier grid: temperatures 5*k hundredths, k from here
TempGridHi == 620   \* ... to here (14.00 .. 31.00 in steps of 0.05)

----------------------------------------------------------------------------
(* Fractions compared with a literal of the code (c in hundredths) *)

Frac(n, d) == [num |-> n, den |-> d]

EqC(x, c) == x.num = c * x.den
LeC(x, c) == x.num <= c * x.den
GeC(x, c) == x.num >= c * x.den
BetweenC(x, lo, hi) == GeC(x, lo) /\ LeC(x, hi)

----------------------------------------------------------------------------
(* assess_red_tide_risk: the conditions of the temperature chain, as written *)

IsOpt20(t)  == EqC(t, 2000)               \* 20 == temp
IsOpt25(t)  == EqC(t, 2500)               \* 25 == temp
IsOpt275(t) == EqC(t, 2750)               \* 27.5 == temp
InBand1(t)  == BetweenC(t, 2100, 2490)    \* 21 <= temp <= 24.9
InBand2(t)  == BetweenC(t, 2510, 2740)    \* 25.1 <= temp <= 27.4
InBand3(t)  == BetweenC(t, 2760, 3000)    \* 27.6 <= temp <= 30
IsHigh(t)   == GeC(t, 3000)               \* temp >= 30
IsLow(t)    == LeC(t, 1500)               \* temp <= 15

\* The if/elif chain: the first condition that holds decides.
TempRule(t) ==
    IF IsOpt20(t) THEN [score |-> 70, reason |-> "optimal temperature"]
    ELSE IF IsOpt25(t) THEN [score |-> 70, reason |-> "optimal temperature"]
    ELSE IF IsOpt275(t) THEN [score |-> 70, reason |-> "optimal temperature"]
    ELSE IF InBand1(t) THEN [score |-> 50, reason |-> "good growth 21~29"]
    ELSE IF InBand2(t) THEN [score |-> 55, reason |-> "good growth 21~29"]
    ELSE IF InBand3(t) THEN [score |-> 65, reason |-> "good growth 21~29"]
    ELSE IF IsHigh(t) THEN [score |-> 0 - 20, reason |-> "high temperature 30+"]
    ELSE IF IsLow(t) THEN [score |-> 0 - 20, reason |-> "low temperature 15-"]
    ELSE [score |-> 0 - 10, reason |-> "temperature outside optimal range"]

SaltRule_Band33to35(s) ==
    IF BetweenC(s, 3300, 3500) THEN [score |-> 50, reason |-> "optimal salinity"]
    ELSE IF LeC(s, 2000) THEN [score |-> 0 - 20, reason |-> "low salinity 20-"]
    ELSE [score |-> 0 - 10, reason |-> "salinity outside optimal range"]

SaltRule(s) ==
    IF BetweenC(s, 3100, 3400) THEN [score |-> 50, reason |-> "optimal salinity"]
    ELSE IF LeC(s, 2000) THEN [score |-> 0 - 20, reason |-> "low salinity 20-"]
    ELSE [score |-> 0 - 10, reason |-> "salinity outside optimal range"]

FinalDiagnosis_StrictLower(risk_score, reasons) ==
    IF risk_score >= 85
    THEN [level |-> "Severe", color |-> "red", reasons |-> reasons]
    ELSE IF risk_score > 40
    THEN [level |-> "Caution", color |-> "orange", reasons |-> reasons]
    ELSE [level |-> "Safe", color |-> "green", reasons |-> reasons]

FinalDiagnosis(risk_score, reasons) ==
    IF risk_score >= 85
    THEN [level |-> "Severe", color |-> "red", reasons |-> reasons]
    ELSE IF risk_score >= 40
    THEN [level |-> "Caution", color |-> "orange", reasons |-> reasons]
    ELSE [level |-> "Safe", color |-> "green", reasons |-> reasons]

assess_red_tide_risk(t, s) ==
    LET tr == TempRule(t)
        sr == SaltRule(s)
        risk_score == 0 + tr.score + sr.score
        reasons == <<tr.reason, sr.reason>>
    IN  FinalDiagnosis(risk_score, reasons)

NoVerdict == [level |-> "none", color |-> "none", reasons |-> <<>>]

----------------------------------------------------------------------------
(* The CSV files and the data frame *)

Paths == <<".", "/content">>

\* A file: absent; present but unreadable (read_csv raises); or a table with
\* the columns Date, Temp, Salt ("ok") or only Date, Temp ("no_salt").
NoFile     == [exists |-> FALSE, fmt |-> "none", rows |-> <<>>]
Unreadable == [exists |-> TRUE, fmt |-> "unreadable", rows |-> <<>>]

\* Date cells as text: <<year, month, day, hour>>, or a text that is no date.
T1 == <<2000, 8, 15, 0>>
T2 == <<2005, 8, 18, 0>>
T3 == <<2005, 8, 18, 12>>
T4 == <<2024, 8, 15, 0>>
BadText == <<>>

OkRows ==
    {[Date |-> d, Temp |-> r[1], Salt |-> r[2]] :
        d \in {T1, T2, T3, T4}, r \in {<<2400, 3300>>, <<2600, 3300>>}}
    \cup {[Date |-> T2, Temp |-> r[1], Salt |-> r[2]] :
        r \in {<<0 - 100, 3300>>, <<0, 3300>>, <<2500, 4500>>, <<2500, 4600>>}}
    \cup {[Date |-> BadText, Temp |-> 2400, Salt |-> 3300]}

NoSaltRows ==
    {[Date |-> d, Temp |-> 2400] : d \in {T1, T2, T4}}
    \cup {[Date |-> T2, Temp |-> 0 - 100]}

SeqsUpTo(S, n) == UNION {[1..k -> S] : k \in 0..n}

TableFiles(n) ==
    {[exists |-> TRUE, fmt |-> "ok", rows |-> rs] : rs \in SeqsUpTo(OkRows, n)}
    \cup {[exists |-> TRUE, fmt |-> "no_salt", rows |-> rs] :
            rs \in SeqsUpTo(NoSaltRows, n)}

\* env_df = None
None_df == [isNone |-> TRUE, index |-> "none", cols |-> {}, rows |-> <<>>]

\* pd.read_csv (line 52): the table as it is in the file, Date still text.
read_csv(f) ==
    [isNone |-> FALSE, index |-> "range",
     cols |-> IF f.fmt = "ok" THEN {"Date", "Temp", "Salt"} ELSE {"Date", "Temp"},
     rows |-> f.rows]

\* pd.to_datetime (line 53): raises when a cell is no date.
Parseable(text) == Len(text) = 4
CanParseDates(df) == \A i \in 1..Len(df.rows) : Parseable(df.rows[i].Date)
Timestamp(text) == ((text[1] * 100 + text[2]) * 100 + text[3]) * 100 + text[4]
to_datetime(df) ==
    [df EXCEPT !.rows = [i \in 1..Len(df.rows) |->
            [df.rows[i] EXCEPT !.Date = Timestamp(df.rows[i].Date)]]]

\* set_index('Date', inplace=True) (line 54): Date leaves the columns.
set_index(df) == [df EXCEPT !.index = "Date", !.cols = df.cols \ {"Date"}]

\* The outlier filter (line 56); row order is the frame's.
BoundsFilter(df) ==
    LET Keep(r) == r.Temp > 0 /\ r.Salt > 0 /\ r.Salt < 4500
    IN  [df EXCEPT !.rows = SelectSeq(df.rows, Keep)]

\* index.strftime('%m-%d') (line 58)
MonthDayOfTs(ts) == <<(ts \div 10000) % 100, (ts \div 100) % 100>>
AddMMDD(df) ==
    LET Ext(r) == [Date |-> r.Date, Temp |-> r.Temp, Salt |-> r.Salt,
                   MMDD |-> MonthDayOfTs(r.Date)]
    IN  [df EXCEPT !.cols = df.cols \cup {"MM-DD"},
                   !.rows = [i \in 1..Len(df.rows) |-> Ext(df.rows[i])]]

\* One pass of the loop body (lines 49-60) with env_df = env on entry:
\* the new env_df and whether the loop breaks.  env_df is assigned at line 52
\* and again at line 56; an exception in between leaves it as it then is.
TryPath(env, f) ==
    IF ~f.exists THEN [env |-> env, brk |-> FALSE]
    ELSE IF f.fmt = "unreadable" THEN [env |-> env, brk |-> FALSE]
    ELSE LET raw == read_csv(f) IN
         IF ~CanParseDates(raw) THEN [env |-> raw, brk |-> FALSE]
         ELSE LET indexed == set_index(to_datetime(raw)) IN
              IF "Salt" \notin indexed.cols
              THEN [env |-> indexed, brk |-> FALSE]
              ELSE [env |-> AddMMDD(BoundsFilter(indexed)), brk |-> TRUE]

RECURSIVE LoadFrom(_, _, _)
LoadFrom(fs, i, env) ==
    IF i > Len(Paths) THEN env
    ELSE LET r == TryPath(env, fs[Paths[i]])
         IN  IF r.brk THEN r.env ELSE LoadFrom(fs, i + 1, r.env)

load_all_data_SortByDate(fs) ==
    LET env == LoadFrom(fs, 1, None_df)
        Before(a, b) == a.Date < b.Date
    IN  IF "MM-DD" \in env.cols
        THEN [env EXCEPT !.rows = SortSeq(env.rows, Before)]
        ELSE env

load_all_data(fs) == LoadFrom(fs, 1, None_df)

----------------------------------------------------------------------------
(* Values a script run starts with *)

NoCache == [hit |-> FALSE, value |-> None_df]
NoShown == [kind |-> "none"]

RunLocalsInit ==
    /\ env_df = None_df
    /\ input_date = 0
    /\ notice = FALSE
    /\ queries = {}
    /\ shown = NoShown
    /\ bg_cols = {}
    /\ verdict = NoVerdict

\* load_all_data under st.cache_data (lines 37, 141): the function runs on a
\* miss; a hit hands out a copy of the stored value.
Load ==
    /\ pc = "start"
    /\ LET value == IF cache.hit THEN cache.value ELSE load_all_data(files)
       IN  /\ cache' = [hit |-> TRUE, value |-> value]
           /\ env_df' = value
    /\ pc' = "sidebar"
    /\ UNCHANGED <<files, runs, btn, input_date, notice, queries, shown,
                   bg_cols, temp, salt, verdict>>

----------------------------------------------------------------------------
(* The loader alone, over every pair of files *)

SecondFiles ==
    {NoFile, Unreadable}
    \cup {[exists |-> TRUE, fmt |-> "ok", rows |-> <<r>>] : r \in OkRows}
    \cup {[exists |-> TRUE, fmt |-> "ok", rows |-> <<>>]}
    \cup {[exists |-> TRUE, fmt |-> "no_salt", rows |-> <<r>>] : r \in NoSaltRows}

InitLoad ==
    /\ files \in {[p \in {".", "/content"} |-> IF p = "." THEN f ELSE g] :
                    f \in {NoFile, Unreadable} \cup TableFiles(MaxRows),
                    g \in SecondFiles}
    /\ cache = NoCache
    /\ pc = "start"
    /\ runs = 1
    /\ btn = "none"
    /\ temp = Frac(0, 1)
    /\ salt = Frac(0, 1)
    /\ RunLocalsInit

SpecLoad == InitLoad /\ [][Load]_vars

----------------------------------------------------------------------------
(* The classifier alone, over a grid of inputs *)

TempGrid == {Frac(5 * k, 1) : k \in TempGridLo..TempGridHi}
SaltGrid == {Frac(v, 1) : v \in {2000, 2005, 3095, 3100, 3300, 3400, 3405, 4400}}

InitAssess ==
    /\ temp \in TempGrid
    /\ salt \in SaltGrid
    /\ files = [p \in {".", "/content"} |-> NoFile]
    /\ cache = NoCache
    /\ pc = "input"
    /\ runs = 1
    /\ btn = "none"
    /\ RunLocalsInit

Assess ==
    /\ pc = "input"
    /\ verdict' = assess_red_tide_risk(temp, salt)
    /\ pc' = "assessed"
    /\ UNCHANGED <<files, cache, env_df, runs, btn, input_date, notice,
                   queries, shown, bg_cols, temp, salt>>

SpecAssess == InitAssess /\ [][Assess]_vars

----------------------------------------------------------------------------
(* main(): one script run, position by position.  Streamlit reruns the    *)
(* script from the top on every interaction; at most one button is set in *)
(* a run, and none in the first.                                          *)

DefaultDate == 20050818     \* default_d of the tab-1 date widget

Buttons == {"none", "btn1", "btn_future", "btn2"}

\* Values the user can give the widgets.
DateChoices   == {20000815, 20050818, 20100101, 20240815}
FutureChoices == {20270101, 20270815, 20270818}
TempChoices   == {Frac(2495, 1), Frac(2550, 1), Frac(3000, 1)}

DateOfTs(ts) == ts \div 100                                 \* Timestamp.date()
MonthDayOfDate(d) == <<(d \div 100) % 100, d % 100>>        \* strftime('%m-%d')

SetMin(S) == CHOOSE x \in S : \A y \in S : x <= y
SetMax(S) == CHOOSE x \in S : \A y \in S : x >= y
Min(a, b) == IF a <= b THEN a ELSE b

RECURSIVE SumSeq(_)
SumSeq(s) == IF Len(s) = 0 THEN 0 ELSE s[1] + SumSeq(Tail(s))

\* The columns Temp and Salt of a frame's rows
TempCol(rows) == [i \in 1..Len(rows) |-> rows[i].Temp]
SaltCol(rows) == [i \in 1..Len(rows) |-> rows[i].Salt]

\* Series.mean(): the sum over the count.
Mean(col) == Frac(SumSeq(col), Len(col))

RECURSIVE Gcd(_, _)
Gcd(a, b) == IF b = 0 THEN a ELSE Gcd(b, a % b)
Abs(x) == IF x < 0 THEN 0 - x ELSE x
Reduce(n, d) == LET g == Gcd(Abs(n), d) IN Frac(n \div g, d \div g)

\* LinearRegression().fit(X, y).predict([[t]]) (lines 233-237): ordinary
\* least squares of Salt on Temp, in lowest terms; a zero variance of Temp
\* gives slope 0.
Predict(rows, t) ==
    LET n   == Len(rows)
        Sx  == SumSeq(TempCol(rows))
        Sy  == SumSeq(SaltCol(rows))
        XX  == [i \in 1..n |-> rows[i].Temp * rows[i].Temp]
        XY  == [i \in 1..n |-> rows[i].Temp * rows[i].Salt]
        Sxx == n * SumSeq(XX) - Sx * Sx
        Sxy == n * SumSeq(XY) - Sx * Sy
    IN  IF Sxx = 0 THEN Reduce(Sy, n)
        ELSE Reduce(Sy * Sxx + Sxy * (n * t - Sx), n * Sxx)

\* (Temp - input_temp)**2 + (Salt - pred_salt)**2 (line 255), over pred.den^2
Similarity(r, t, pred) ==
    (r.Temp - t) * (r.Temp - t) * pred.den * pred.den
    + (r.Salt * pred.den - pred.num) * (r.Salt * pred.den - pred.num)

IndexDates == {DateOfTs(env_df.rows[i].Date) : i \in 1..Len(env_df.rows)}

\* min_d <= d <= max_d (line 166), for a frame with rows
InIndexRange(d) == SetMin(IndexDates) <= d /\ d <= SetMax(IndexDates)

RunLocals == <<input_date, notice, queries, shown, bg_cols, temp, salt, verdict>>

\* Lines 143-151: the data gate.  st.stop() ends the run.
Sidebar_WarnOnly ==
    /\ pc = "sidebar"
    /\ IF env_df.isNone
       THEN notice' = TRUE /\ pc' = "tab1"
       ELSE /\ notice' = notice
            /\ pc' = IF env_df.index = "Date" THEN "tab1" ELSE "error"
    /\ UNCHANGED <<files, cache, env_df, runs, btn, input_date, queries,
                   shown, bg_cols, temp, salt, verdict>>

Sidebar ==
    /\ pc = "sidebar"
    /\ IF env_df.isNone
       THEN notice' = TRUE /\ pc' = "stopped"
       ELSE /\ notice' = notice
            \* line 146: .year of the index minimum; a RangeIndex has none
            /\ pc' = IF env_df.index = "Date" THEN "tab1" ELSE "error"
    /\ UNCHANGED <<files, cache, env_df, runs, btn, input_date, queries,
                   shown, bg_cols, temp, salt, verdict>>

\* Lines 166-169: the widget cannot be built (None has no index; an empty
\* index gives NaT bounds), or st.date_input rejects the default date
\* 2005-08-18 because it lies outside [min_d, max_d].
Tab1WidgetError ==
    /\ pc = "tab1"
    /\ IF env_df.isNone \/ Len(env_df.rows) = 0
       THEN TRUE
       ELSE ~InIndexRange(DefaultDate)
    /\ pc' = "error"
    /\ UNCHANGED <<files, cache, env_df, runs, btn, RunLocals>>

\* Lines 173-189, the rows matched by date.
RowsOfDate(df, d) ==
    LET Hit(r) == DateOfTs(r.Date) = d
    IN  SelectSeq(df.rows, Hit)

Tab1 ==
    /\ pc = "tab1"
    /\ ~env_df.isNone
    /\ Len(env_df.rows) > 0
    /\ InIndexRange(DefaultDate)
    /\ \E d \in DateChoices :
        /\ InIndexRange(d)
        /\ input_date' = d
        /\ IF btn # "btn1"
           THEN /\ pc' = "tab2"
                /\ UNCHANGED <<queries, shown, temp, salt, verdict>>
           ELSE LET target_data == RowsOfDate(env_df, d) IN
                /\ queries' = queries \cup {"historical"}
                /\ IF Len(target_data) = 0
                   THEN /\ shown' = [kind |-> "nodata"]
                        /\ pc' = "tab2"
                        /\ UNCHANGED <<temp, salt, verdict>>
                   ELSE IF "Salt" \notin env_df.cols
                   THEN \* line 176: KeyError 'Salt'
                        /\ pc' = "error"
                        /\ UNCHANGED <<shown, temp, salt, verdict>>
                   ELSE LET avg_t == Mean(TempCol(target_data))
                            avg_s == Mean(SaltCol(target_data))
                        IN  /\ temp' = avg_t
                            /\ salt' = avg_s
                            /\ verdict' = assess_red_tide_risk(avg_t, avg_s)
                            /\ shown' = [kind |-> "result", n |-> Len(target_data)]
                            /\ pc' = "tab2"
    /\ UNCHANGED <<files, cache, env_df, runs, btn, notice, bg_cols>>

\* Lines 203-222.
Tab2 ==
    /\ pc = "tab2"
    /\ \E future_date \in FutureChoices :
        IF btn # "btn_future"
        THEN /\ pc' = "tab3"
             /\ UNCHANGED <<queries, shown, temp, salt, verdict>>
        ELSE /\ queries' = queries \cup {"seasonal"}
             /\ IF "MM-DD" \notin env_df.cols
                THEN \* line 205: KeyError 'MM-DD'
                     /\ pc' = "error"
                     /\ UNCHANGED <<shown, temp, salt, verdict>>
                ELSE LET Hit(r) == r.MMDD = MonthDayOfDate(future_date)
                         historical_samples == SelectSeq(env_df.rows, Hit)
                     IN  IF Len(historical_samples) = 0
                         THEN /\ shown' = [kind |-> "insufficient"]
                              /\ pc' = "tab3"
                              /\ UNCHANGED <<temp, salt, verdict>>
                         ELSE LET pred_t == Mean(TempCol(historical_samples))
                                  pred_s == Mean(SaltCol(historical_samples))
                              IN  /\ temp' = pred_t
                                  /\ salt' = pred_s
                                  /\ verdict' = assess_red_tide_risk(pred_t, pred_s)
                                  /\ shown' = [kind |-> "forecast",
                                               n |-> Len(historical_samples)]
                                  /\ pc' = "tab3"
    /\ UNCHANGED <<files, cache, env_df, runs, btn, input_date, notice, bg_cols>>

\* Lines 232-257.  Line 255 assigns the column Similarity to env_df itself.
Tab3 ==
    /\ pc = "tab3"
    /\ \E input_temp \in TempChoices :
        IF btn # "btn2"
        THEN /\ pc' = "tab4"
             /\ UNCHANGED <<env_df, queries, shown, temp, salt, verdict>>
        ELSE /\ queries' = queries \cup {"prediction"}
             /\ IF "Salt" \notin env_df.cols \/ Len(env_df.rows) = 0
                THEN \* line 234: KeyError 'Salt'; line 236: fit on no sample
                     /\ pc' = "error"
                     /\ UNCHANGED <<env_df, shown, temp, salt, verdict>>
                ELSE LET pred_salt == Predict(env_df.rows, input_temp.num)
                         Ext(r) == [Date |-> r.Date, Temp |-> r.Temp,
                                    Salt |-> r.Salt, MMDD |-> r.MMDD,
                                    Similarity |-> Similarity(r, input_temp.num, pred_salt)]
                         with == [i \in 1..Len(env_df.rows) |-> Ext(env_df.rows[i])]
                         Nearer(a, b) == a.Similarity < b.Similarity
                         top5 == SubSeq(SortSeq(with, Nearer), 1, Min(5, Len(with)))
                     IN  /\ temp' = input_temp
                         /\ salt' = pred_salt
                         /\ verdict' = assess_red_tide_risk(input_temp, pred_salt)
                         /\ env_df' = [env_df EXCEPT
                                          !.cols = env_df.cols \cup {"Similarity"},
                                          !.rows = with]
                         /\ shown' = [kind |-> "prediction", top5 |-> [i \in 1..Len(top5) |->
                                                    <<top5[i].Temp, top5[i].Salt>>]]
                         /\ pc' = "tab4"
    /\ UNCHANGED <<files, cache, runs, btn, input_date, notice, bg_cols>>

\* Lines 263-288: bg_sample is a copy of a sample of env_df with a Density
\* column; line 288 then names mcolors, which nothing defines.
Tab4 ==
    /\ pc = "tab4"
    /\ queries' = queries \cup {"scatter"}
    /\ bg_cols' = env_df.cols \cup {"Density"}
    /\ pc' = "error"
    /\ UNCHANGED <<files, cache, env_df, runs, btn, input_date, notice,
                   shown, temp, salt, verdict>>

\* The next interaction starts the script again.
Rerun ==
    /\ pc \in {"stopped", "error"}
    /\ runs < MaxRuns
    /\ runs' = runs + 1
    /\ btn' \in Buttons
    /\ pc' = "start"
    /\ env_df' = None_df
    /\ input_date' = 0
    /\ notice' = FALSE
    /\ queries' = {}
    /\ shown' = NoShown
    /\ bg_cols' = {}
    /\ verdict' = NoVerdict
    /\ UNCHANGED <<files, cache, temp, salt>>

SessionSecondFiles ==
    {NoFile,
     [exists |-> TRUE, fmt |-> "ok",
      rows |-> <<[Date |-> T2, Temp |-> 2400, Salt |-> 3300]>>]}

Init ==
    /\ files \in {[p \in {".", "/content"} |-> IF p = "." THEN f ELSE g] :
                    f \in {NoFile, Unreadable} \cup TableFiles(MaxRows),
                    g \in SessionSecondFiles}
    /\ cache = NoCache
    /\ pc = "start"
    /\ runs = 1
    /\ btn = "none"
    /\ temp = Frac(0, 1)
    /\ salt = Frac(0, 1)
    /\ RunLocalsInit

Next ==
    \/ Load
    \/ Sidebar
    \/ Tab1WidgetError
    \/ Tab1
    \/ Tab2
    \/ Tab3
    \/ Tab4
    \/ Rerun

Spec == Init /\ [][Next]_vars

----------------------------------------------------------------------------
(* Properties *)

Loaded == pc # "start" /\ cache.hit

C1_LoadsCompletely(f) ==
    /\ f.exists
    /\ f.fmt = "ok"
    /\ \A i \in 1..Len(f.rows) : Len(f.rows[i].Date) = 4

\* C1 (as claimed): load_all_data returns None for the environment dataset
\* whenever no candidate path holds a file whose every load step completes.
C1_AbsentUnlessCompleteLoad ==
    (Loaded /\ \A i \in 1..Len(Paths) : ~C1_LoadsCompletely(files[Paths[i]]))
        => cache.value.isNone

C2_RowInBounds(df, r) ==
    /\ r.Temp > 0
    /\ IF "Salt" \in df.cols THEN r.Salt > 0 /\ r.Salt < 4500 ELSE FALSE

\* C2 (as claimed): every record of a returned, non-absent environment
\* dataset has Temp > 0 and 0 < Salt < 45.
C2_ReturnedRowsInBounds ==
    (Loaded /\ ~cache.value.isNone)
        => \A i \in 1..Len(cache.value.rows) :
               C2_RowInBounds(cache.value, cache.value.rows[i])

C3_Holding(t) ==
    {b \in {"opt20", "opt25", "opt275", "band1", "band2", "band3", "high",
            "low", "rest"} :
        \/ b = "opt20" /\ IsOpt20(t)
        \/ b = "opt25" /\ IsOpt25(t)
        \/ b = "opt275" /\ IsOpt275(t)
        \/ b = "band1" /\ InBand1(t)
        \/ b = "band2" /\ InBand2(t)
        \/ b = "band3" /\ InBand3(t)
        \/ b = "high" /\ IsHigh(t)
        \/ b = "low" /\ IsLow(t)
        \/ b = "rest" /\ ~(IsOpt20(t) \/ IsOpt25(t) \/ IsOpt275(t) \/ InBand1(t)
                           \/ InBand2(t) \/ InBand3(t) \/ IsHigh(t) \/ IsLow(t))}

\* C3 (as claimed): for every temperature exactly one bracket condition of
\* the temperature chain, as written, holds (the remainder bracket being the
\* one that holds when no written condition does).
C3_ExactlyOneBracket ==
    pc = "assessed" => Cardinality(C3_Holding(temp)) = 1

C4_Sum == TempRule(temp).score + SaltRule(salt).score

\* C4: the tier is decided by the sum of the one temperature score and the
\* one salinity score: Safe iff sum < 40, Caution iff 40 <= sum < 85,
\* Severe iff sum >= 85.
C4_TierFromSum ==
    verdict.level # "none" =>
        /\ TempRule(temp).score \in {70, 50, 55, 65, 0 - 20, 0 - 10}
        /\ SaltRule(salt).score \in {50, 0 - 20, 0 - 10}
        /\ Len(verdict.reasons) = 2
        /\ verdict.level = "Safe" <=> C4_Sum < 40
        /\ verdict.level = "Caution" <=> (40 <= C4_Sum /\ C4_Sum < 85)
        /\ verdict.level = "Severe" <=> C4_Sum >= 85
C4_Witness == verdict.level = "Caution" /\ C4_Sum = 40

\* C5: in a run whose environment dataset is absent after load, the blocking
\* notice is shown and no query operation is executed; queries are executed
\* only in runs whose environment dataset is present.
C5_GateBlocksQueries ==
    /\ (pc \notin {"start", "sidebar"} /\ env_df.isNone)
           => (pc = "stopped" /\ notice /\ queries = {})
    /\ queries # {} => ~env_df.isNone
C5_Witness ==
    pc = "stopped" /\ env_df.isNone /\ notice /\ runs = 2 /\ btn = "btn1"

C6_Matches == {i \in 1..Len(env_df.rows) : env_df.rows[i].Date \div 100 = input_date}
RECURSIVE C6_SumTemp(_)
C6_SumTemp(S) ==
    IF S = {} THEN 0
    ELSE LET i == CHOOSE j \in S : TRUE
         IN  env_df.rows[i].Temp + C6_SumTemp(S \ {i})
RECURSIVE C6_SumSalt(_)
C6_SumSalt(S) ==
    IF S = {} THEN 0
    ELSE LET i == CHOOSE j \in S : TRUE
         IN  env_df.rows[i].Salt + C6_SumSalt(S \ {i})

\* C6 (as claimed): the historical-date query reports "no data" and assesses
\* nothing when no record has the selected date, and otherwise assesses the
\* arithmetic means of Temp and Salt over exactly the records of that date.
C6_QueryByDate ==
    "historical" \in queries =>
        IF C6_Matches = {}
        THEN shown.kind = "nodata" /\ verdict = NoVerdict
        ELSE /\ shown.kind = "result"
             /\ temp = Frac(C6_SumTemp(C6_Matches), Cardinality(C6_Matches))
             /\ salt = Frac(C6_SumSalt(C6_Matches), Cardinality(C6_Matches))
             /\ verdict = assess_red_tide_risk(temp, salt)

\* C7 (as claimed): through every user operation the environment dataset of
\* the run keeps the records and fields it had right after load.
C7_DatasetUnchanged ==
    Loaded => env_df = cache.value

\* C8 (as claimed): the environment collection returned by a complete load
\* is in ascending date order.
C8_SortedByDate ==
    (Loaded /\ "MM-DD" \in cache.value.cols)
        => \A i, j \in 1..Len(cache.value.rows) :
               i < j => cache.value.rows[i].Date <= cache.value.rows[j].Date

RECURSIVE C8_IsSubseq(_, _)
C8_IsSubseq(a, b) ==
    IF Len(a) = 0 THEN TRUE
    ELSE IF Len(b) = 0 THEN FALSE
    ELSE IF a[1] = b[1] THEN C8_IsSubseq(Tail(a), Tail(b))
    ELSE C8_IsSubseq(a, Tail(b))
C8_Key(df, r, parse) ==
    <<IF parse THEN ((r.Date[1] * 100 + r.Date[2]) * 100 + r.Date[3]) * 100 + r.Date[4]
      ELSE r.Date,
      r.Temp,
      IF "Salt" \in df.cols THEN r.Salt ELSE 0>>
C8_FromFile(df, f) ==
    /\ f.exists
    /\ f.fmt \in {"ok", "no_salt"}
    /\ ("Salt" \in df.cols) <=> (f.fmt = "ok")
    /\ LET parse == df.index = "Date" IN
       /\ parse => \A i \in 1..Len(f.rows) : Len(f.rows[i].Date) = 4
       /\ C8_IsSubseq([i \in 1..Len(df.rows) |-> C8_Key(df, df.rows[i], FALSE)],
                      [i \in 1..Len(f.rows) |-> C8_Key(df, f.rows[i], parse)])

\* C8 (amended): the returned collection holds rows of one input CSV in the
\* order in which they appear in that file.
C8_FileOrderKept ==
    (Loaded /\ ~cache.value.isNone)
        => \E i \in 1..Len(Paths) : C8_FromFile(cache.value, files[Paths[i]])
C8_Witness ==
    /\ Loaded
    /\ "MM-DD" \in cache.value.cols
    /\ Len(cache.value.rows) = 2
    /\ cache.value.rows[1].Date > cache.value.rows[2].Date

\* C9 (as claimed): every temperature from 21 to 30 scores at least +50 with
\* an "optimal" or "good growth" reason, and the remainder rule applies only
\* to temperatures t with 15 < t < 21, t # 20.
C9_GrowthRangeScoresPositive ==
    pc = "assessed" =>
        /\ BetweenC(temp, 2100, 3000) =>
              /\ TempRule(temp).score >= 50
              /\ verdict.reasons[1] \in {"optimal temperature", "good growth 21~29"}
        /\ verdict.reasons[1] = "temperature outside optimal range" =>
              /\ temp.num > 1500 * temp.den
              /\ temp.num < 2100 * temp.den
              /\ temp.num # 2000 * temp.den

C10_PositiveTemp ==
    \/ temp.num = 2000 * temp.den
    \/ temp.num = 2500 * temp.den
    \/ temp.num = 2750 * temp.den
    \/ (2100 * temp.den <= temp.num /\ temp.num <= 2490 * temp.den)
    \/ (2510 * temp.den <= temp.num /\ temp.num <= 2740 * temp.den)
    \/ (2760 * temp.den <= temp.num /\ temp.num <= 3000 * temp.den)

\* C10: the verdict is Severe exactly when the salinity is in 31..34 and the
\* temperature is an optimal point (20, 25, 27.5) or in a growth band
\* (21..24.9, 25.1..27.4, 27.6..30); (25, 33) is Severe.
C10_SevereIffBothOptimal ==
    verdict.level # "none" =>
        /\ verdict.level = "Severe" <=>
              (3100 * salt.den <= salt.num /\ salt.num <= 3400 * salt.den
               /\ C10_PositiveTemp)
        /\ (temp.num > 3000 * temp.den \/ temp.num <= 1500 * temp.den)
              => verdict.level # "Severe"
C10_Witness ==
    /\ temp = Frac(2500, 1)
    /\ salt = Frac(3300, 1)
    /\ verdict.level = "Severe"

====
